---- MODULE Spec2Model ----
(***************************************************************************)
(* Model of the expression-matrix query engine of rnaget_service           *)
(* (candig_rnaget.expression.rnaget_query.ExpressionQueryTool).            *)
(*                                                                         *)
(* A matrix file holds a samples axis, a features axis (arrays of          *)
(* fixed-width byte strings) and the expression matrix (rows = samples,    *)
(* columns = features).  An engine instance is opened on one file with an  *)
(* output format; search and search_threshold build a results object.      *)
(*                                                                         *)
(* Text (str) is a sequence of code points, bytes a sequence of byte       *)
(* values; positions on an axis are 0-based as in numpy.                   *)
(***************************************************************************)
EXTENDS Integers, Sequences, FiniteSets, TLC

VARIABLES
    input_file,     \* what is at the input path: "missing" | "bare" | "matrix"
    handle,         \* self._file: "none" | "open" | "closed"
    samples,        \* file["axis/samples"]: sequence of stored byte strings
    features,       \* file["axis/features"]: sequence of stored byte strings
    expression,     \* file["expression"]: rows (one per sample) of values
    counts,         \* file["metadata/counts"]: rows (one per sample) of raw counts
    output_format,  \* self._output_format
    library,        \* how the installed HDF5 library behaves (see LibraryBehaviours)
    pc,             \* where the caller is: "new" | "opened" | "queried" | "failed" |
                    \* "closed" | "api" | "converted"
    call,           \* the arguments of the last call on the engine
    result,         \* what the last call handed back (with its local `indices`)
    api,            \* the search request being served by api.operations, if any
    held            \* the results objects of earlier calls on the instance that the
                    \* caller still holds: "dict" | "open" | "closed" | "overwritten"

vars == <<input_file, handle, samples, features, expression, counts, output_format, library,
          pc, call, result, api, held>>

----------------------------------------------------------------------------
(* Bounds of the model *)

\* longest identifier list / threshold pair list of a request
MaxList == 2

\* longest axis handed to the bare index lookup
MaxAxis == 3

----------------------------------------------------------------------------
(* Text, bytes and the fixed-width storage slot *)

\* dtype "S20": an axis slot holds 20 bytes
SlotWidth == 20

\* identifiers used on axes and in requests (code points)
S1 == <<83, 49>>          \* "S1"
S2 == <<83, 233>>         \* "S" followed by U+00E9 (two bytes in UTF-8)
SX == <<83, 88>>          \* "SX": on no samples axis
F1 == <<70, 49>>          \* "F1"
F2 == <<70, 50>>          \* "F2"
FX == <<70, 88>>          \* "FX": on no features axis
N1 == <<78, 49>>          \* gene symbols
N2 == <<78, 50>>
N9 == <<78, 57>>          \* a symbol the mapping table does not hold
A1 == <<65, 49>>          \* accession numbers
A2 == <<65, 50>>
A3 == <<65, 51>>
A9 == <<65, 57>>          \* an accession the mapping table does not hold

\* str.encode of one code point (UTF-8, one or two bytes)
EncodeChar(c) ==
    IF c < 128 THEN <<c>> ELSE <<192 + (c \div 64), 128 + (c % 64)>>

RECURSIVE Encode(_)
\* str.encode: text -> bytes
Encode(s) ==
    IF s = <<>> THEN <<>> ELSE EncodeChar(Head(s)) \o Encode(Tail(s))

RECURSIVE Decode(_)
\* bytes.decode: bytes -> text (the axes hold valid UTF-8 only)
Decode(b) ==
    IF b = <<>> THEN <<>>
    ELSE IF Head(b) < 128 THEN <<Head(b)>> \o Decode(Tail(b))
    ELSE <<(Head(b) - 192) * 64 + (Head(Tail(b)) - 128)>> \o Decode(Tail(Tail(b)))

\* assignment into an "S20" dataset keeps the first SlotWidth bytes
Store20(b) ==
    IF Len(b) <= SlotWidth THEN b ELSE SubSeq(b, 1, SlotWidth)

----------------------------------------------------------------------------
(* Insertion-ordered dictionaries (dict / OrderedDict) as sequences of      *)
(* <<key, value>> pairs with distinct keys                                  *)

DictKeys(d) == [i \in 1..Len(d) |-> d[i][1]]

DictValues(d) == [i \in 1..Len(d) |-> d[i][2]]

DictHas(d, k) == \E i \in 1..Len(d) : d[i][1] = k

DictGet(d, k) == d[CHOOSE i \in 1..Len(d) : d[i][1] = k][2]

\* d[k] = v: an existing key keeps its place
DictSet(d, k, v) ==
    IF DictHas(d, k)
    THEN [i \in 1..Len(d) |-> IF d[i][1] = k THEN <<k, v>> ELSE d[i]]
    ELSE Append(d, <<k, v>>)

RECURSIVE DictFromZip(_, _)
\* dict(zip(keys, values)): stops at the shorter of the two
DictFromZip(keys, values) ==
    IF keys = <<>> \/ values = <<>> THEN <<>>
    ELSE LET n == IF Len(keys) < Len(values) THEN Len(keys) ELSE Len(values)
             rest == DictFromZip(SubSeq(keys, 1, n - 1), SubSeq(values, 1, n - 1))
         IN DictSet(rest, keys[n], values[n])

----------------------------------------------------------------------------
(* ExpressionQueryTool._get_hdf5_indices *)

\* np.where(arr == encoded_id)[0]: the matching positions
WherePositions(arr, encoded_id) ==
    {i - 1 : i \in {j \in 1..Len(arr) : arr[j] = encoded_id}}

\* lookup[0]: np.where yields positions in ascending order
FirstOf(P) == CHOOSE m \in P : \A x \in P : m <= x

RECURSIVE CollectIndices(_, _)
\* the loop over encoded_list filling the dict `indices`
CollectIndices(arr, id_list) ==
    IF id_list = <<>> THEN <<>>
    ELSE LET n == Len(id_list)
             sofar == CollectIndices(arr, SubSeq(id_list, 1, n - 1))
             encoded_id == Encode(id_list[n])
             lookup == WherePositions(arr, encoded_id)
         IN IF lookup # {}
            THEN DictSet(sofar, Decode(encoded_id), FirstOf(lookup))
            ELSE sofar

RECURSIVE InsertByValue(_, _)
\* insert item after every element whose value is <= its own (stable)
InsertByValue(sorted, item) ==
    IF sorted = <<>> THEN <<item>>
    ELSE IF Head(sorted)[2] <= item[2]
         THEN <<Head(sorted)>> \o InsertByValue(Tail(sorted), item)
         ELSE <<item>> \o sorted

RECURSIVE SortedByValue(_)
\* sorted(indices.items(), key=lambda i: i[1])
SortedByValue(d) ==
    IF d = <<>> THEN <<>>
    ELSE InsertByValue(SortedByValue(SubSeq(d, 1, Len(d) - 1)), d[Len(d)])

\* the lookup without its sort: ids in request order
GetHdf5IndicesUnsorted(arr, id_list) == CollectIndices(arr, id_list)

\* _get_hdf5_indices(axis, id_list): OrderedDict id -> position, low to high
GetHdf5Indices(arr, id_list) == SortedByValue(CollectIndices(arr, id_list))

----------------------------------------------------------------------------
(* The feature-mapping table (feature_mapping_HGNC.tsv) and label resolution *)

\* rows of the tab-separated table read by pd.read_csv; the symbol N1 and the
\* accession A1 occur on two rows
FeatureMap ==
    << [ensembl_id |-> F1, gene_symbol |-> N1, accession_numbers |-> A1],
       [ensembl_id |-> F2, gene_symbol |-> N1, accession_numbers |-> A1],
       [ensembl_id |-> F2, gene_symbol |-> N2, accession_numbers |-> A2],
       [ensembl_id |-> FX, gene_symbol |-> N2, accession_numbers |-> A3] >>

\* df.loc[df[df_key] == feature_value].ensembl_id: the matching rows, in order
DfLookup(df_key, feature_value) ==
    LET hits == {i \in 1..Len(FeatureMap) : FeatureMap[i][df_key] = feature_value}
    IN [row \in hits |-> FeatureMap[row].ensembl_id]

\* the last matching row instead of the first
LastValue(df_lookup) ==
    df_lookup[CHOOSE m \in DOMAIN df_lookup : \A x \in DOMAIN df_lookup : x <= m]

\* df_lookup.values[0]
FirstValue(df_lookup) == df_lookup[FirstOf(DOMAIN df_lookup)]

RECURSIVE ResolveFeatures(_, _)
\* the loop over the name / accession list in search(): the canonical ids found
\* and the dict supplementary_feature_label (gene_id -> the value asked for)
ResolveFeatures(df_key, feature_list) ==
    IF feature_list = <<>> THEN [ids |-> <<>>, labels |-> <<>>]
    ELSE LET n == Len(feature_list)
             sofar == ResolveFeatures(df_key, SubSeq(feature_list, 1, n - 1))
             feature_value == feature_list[n]
             df_lookup == DfLookup(df_key, feature_value)
         IN IF DOMAIN df_lookup # {}
            THEN LET gene_id == FirstValue(df_lookup)
                 IN [ids |-> Append(sofar.ids, gene_id),
                     labels |-> DictSet(sofar.labels, gene_id, feature_value)]
            ELSE sofar

\* supplementary_feature_label[sf] = supplementary_feature_label[sf].encode('utf-8')
EncodeLabels(labels) ==
    [i \in 1..Len(labels) |-> <<labels[i][1], Encode(labels[i][2])>>]

----------------------------------------------------------------------------
(* Results objects *)

\* output formats of SUPPORTED_OUTPUT_FORMATS
JSON == ".json"

H5 == ".h5"

\* _build_results_template: a dict for ".json", an empty in-memory file for ".h5"
BuildResultsTemplate(fmt) ==
    IF fmt = JSON
    THEN [format |-> JSON, features |-> <<>>, expression |-> <<>>]
    ELSE [format |-> H5, datasets |-> {}, features |-> <<>>, samples |-> <<>>,
          expression |-> <<>>]

\* what a call hands back: a results object, or the exception it raised
Returned(results, idx) == [status |-> "ok", results |-> results, indices |-> idx]

Raised(exception, idx) ==
    [status |-> exception, results |-> [format |-> "none"], indices |-> idx]

\* One behaviour of the HDF5 library is not fixed by the repository and
\* differs between its releases: reading a dataset with an empty index list
\* yields an empty block (lib.empty_selection) or raises.
LibraryBehaviours == [empty_selection : BOOLEAN]

\* a file whose samples axis is written back to front
WriteHdf5ResultsReversed(results, sample_list, feature_list, rows, suppl_features_label) ==
         [results EXCEPT
            !.datasets = {"axis/features", "axis/samples", "expression"},
            !.features = [i \in 1..Len(feature_list) |->
                            IF suppl_features_label # <<>>
                            THEN <<Store20(feature_list[i]), Store20(suppl_features_label[i])>>
                            ELSE <<Store20(feature_list[i])>>],
            !.samples = [i \in 1..Len(sample_list) |->
                            Store20(sample_list[Len(sample_list) + 1 - i])],
            !.expression = [i \in 1..Len(sample_list) |->
                              [j \in 1..Len(feature_list) |-> rows[i][j]]]]

\* _write_hdf5_results: the three datasets of the results file.  `rows` is
\* the value block laid out as len(sample_list) rows of len(feature_list)
\* values.
WriteHdf5Results(results, sample_list, feature_list, rows, suppl_features_label) ==
         [results EXCEPT
            !.datasets = {"axis/features", "axis/samples", "expression"},
            !.features = [i \in 1..Len(feature_list) |->
                            IF suppl_features_label # <<>>
                            THEN <<Store20(feature_list[i]), Store20(suppl_features_label[i])>>
                            ELSE <<Store20(feature_list[i])>>],
            !.samples = [i \in 1..Len(sample_list) |-> Store20(sample_list[i])],
            !.expression = [i \in 1..Len(sample_list) |->
                              [j \in 1..Len(feature_list) |-> rows[i][j]]]]

\* the first row, whichever the sample
RowAtFirst(r) == expression[1]

\* expression[r, ...]: the row of the sample at 0-based position r
RowAt(r) == expression[r + 1]

\* expression[r, feature_slices]
RowSlice(r, feature_slices) ==
    [j \in 1..Len(feature_slices) |-> expression[r + 1][feature_slices[j] + 1]]

\* expression[:, feature_slices]: one row per sample
ColumnSlices(feature_slices) ==
    [i \in 1..Len(expression) |-> RowSlice(i - 1, feature_slices)]

\* zip(*rows): the columns of a block of equally long rows
ZipStar(rows) ==
    IF rows = <<>> THEN <<>>
    ELSE [j \in 1..Len(rows[1]) |-> [i \in 1..Len(rows) |-> rows[i][j]]]

\* list(map(bytes.decode, axis))
DecodeAll(axis) == [i \in 1..Len(axis) |-> Decode(axis[i])]

\* [x.encode('utf-8') for x in ids]
EncodeAll(ids) == [i \in 1..Len(ids) |-> Encode(ids[i])]

\* supplementary_feature_array: the label of every id found on the axis
SupplementaryArray(idx, supplementary_feature_label) ==
    IF supplementary_feature_label = <<>> THEN <<>>
    ELSE [i \in 1..Len(idx) |-> DictGet(supplementary_feature_label, idx[i][1])]

\* get_expression_matrix: self._file["expression"] is there to be read (a
\* file without the dataset makes the subscript raise KeyError)
HasExpressionMatrix == input_file = "matrix"

----------------------------------------------------------------------------
(* ExpressionQueryTool._search_sample *)

SearchSample(sample_id, fmt) ==
    LET sample_lookup == GetHdf5Indices(samples, <<sample_id>>)
        results == BuildResultsTemplate(fmt)
    IN IF ~HasExpressionMatrix THEN Raised("KeyError", <<>>)
       ELSE IF ~DictHas(sample_lookup, sample_id) THEN Returned(results, <<>>)
       ELSE LET sample_index == DictGet(sample_lookup, sample_id)
                sample_expressions == RowAt(sample_index)
                feature_load == features
            IN IF fmt = JSON
               THEN Returned([results EXCEPT
                                !.features = DecodeAll(feature_load),
                                !.expression = DictSet(results.expression, sample_id,
                                                       sample_expressions)], <<>>)
               ELSE Returned(WriteHdf5Results(results, <<Encode(sample_id)>>,
                        feature_load, <<sample_expressions>>, <<>>), <<>>)

----------------------------------------------------------------------------
(* ExpressionQueryTool._search_features *)

\* a "min" comparison that lets the threshold itself pass
FtCompareInclusive(ft_type, x, y) == IF ft_type = "min" THEN x >= y ELSE x <= y

\* the two comparisons the wrong way round
FtCompareSwapped(ft_type, x, y) == IF ft_type = "min" THEN x <= y ELSE x > y

\* ft_compare of ft_type: "min" keeps x > y, anything else keeps x <= y
FtCompare(ft_type, x, y) == IF ft_type = "min" THEN x > y ELSE x <= y

\* list(indices.keys()).index(feature_id): the 0-based place of the key
KeyIndex(idx, feature_id) ==
    (CHOOSE i \in 1..Len(idx) : idx[i][1] = feature_id) - 1

\* expression_df[ft_compare(expression_df[column], threshold)]: the frame is
\* a sequence of <<row label, row>>; rows failing the comparison are dropped
RECURSIVE FilterFrame(_, _, _, _)
FilterFrame(df, column, ft_type, threshold) ==
    IF df = <<>> THEN <<>>
    ELSE LET rest == FilterFrame(Tail(df), column, ft_type, threshold)
         IN IF FtCompare(ft_type, Head(df)[2][column + 1], threshold)
            THEN <<Head(df)>> \o rest
            ELSE rest

\* the loop "slice data frame while samples remain" over ft_list; the frame
\* left, or failed when list.index raises ValueError
RECURSIVE SliceFrame(_, _, _, _)
SliceFrame(df, idx, ft_list, ft_type) ==
    IF ft_list = <<>> THEN [failed |-> FALSE, df |-> df]
    ELSE IF Len(df) > 0
         THEN IF ~DictHas(idx, Head(ft_list)[1])
              THEN [failed |-> TRUE, df |-> <<>>]
              ELSE SliceFrame(FilterFrame(df, KeyIndex(idx, Head(ft_list)[1]),
                                          ft_type, Head(ft_list)[2]),
                              idx, Tail(ft_list), ft_type)
         ELSE [failed |-> FALSE, df |-> df]

\* pd.DataFrame(expression[:, feature_slices]): rows labelled 0, 1, ...
DataFrame(rows) == [i \in 1..Len(rows) |-> <<i - 1, rows[i]>>]

\* the part of _search_features after the slicing: filling the results object
FillFeatureResults(results, idx, feature_expressions, sample_expressions, samples_list, supplementary_feature_array, fmt) ==
    IF fmt = JSON
    THEN IF feature_expressions # <<>>
         THEN Returned([results EXCEPT
                 !.expression = DictFromZip(samples_list, ZipStar(feature_expressions))],
                 idx)
         ELSE Returned([results EXCEPT
                 !.expression = DictFromZip(samples_list, sample_expressions)], idx)
    ELSE LET encoded_samples == EncodeAll(samples_list)
             encoded_features == EncodeAll(DictKeys(idx))
             rows == IF Len(feature_expressions) > 0 THEN feature_expressions
                     ELSE sample_expressions
         IN IF Len(rows) > 0
            THEN Returned(WriteHdf5Results(results, encoded_samples,
                     encoded_features, rows, supplementary_feature_array), idx)
            ELSE Returned(results, idx)

SearchFeatures(feature_list, ft_list, ft_type, supplementary_feature_label, fmt, lib) ==
    LET idx == GetHdf5Indices(features, feature_list)
        results == BuildResultsTemplate(fmt)
        supplementary_feature_array == SupplementaryArray(idx, supplementary_feature_label)
        feature_slices == DictValues(idx)
    IN IF ~HasExpressionMatrix THEN Raised("KeyError", <<>>)
       ELSE IF feature_slices = <<>> /\ ~lib.empty_selection
       THEN Raised("LibraryError", idx)
       ELSE IF ft_list # <<>> /\ ft_type # ""
       THEN LET labelled == IF fmt = JSON
                            THEN [results EXCEPT !.features = feature_list]
                            ELSE results
                sliced == SliceFrame(DataFrame(ColumnSlices(feature_slices)),
                                     idx, ft_list, ft_type)
                sample_expressions == [i \in 1..Len(sliced.df) |-> sliced.df[i][2]]
                samples_list == [i \in 1..Len(sliced.df) |->
                                    Decode(samples[sliced.df[i][1] + 1])]
            IN IF sliced.failed THEN Raised("ValueError", idx)
               ELSE FillFeatureResults(labelled, idx, <<>>, sample_expressions,
                        samples_list, supplementary_feature_array, fmt)
       ELSE LET labelled == IF fmt = JSON
                            THEN [results EXCEPT !.features = DictKeys(idx)]
                            ELSE results
            IN FillFeatureResults(labelled, idx, ColumnSlices(feature_slices), <<>>,
                     DecodeAll(samples), supplementary_feature_array, fmt)

----------------------------------------------------------------------------
(* ExpressionQueryTool.search *)

\* the branch "if sample_id and feature_list_id" of search()
SearchSampleFeatures(sample_id, feature_list_id, supplementary_feature_label, fmt, lib) ==
    LET sample_lookup == GetHdf5Indices(samples, <<sample_id>>)
        feature_indices == GetHdf5Indices(features, feature_list_id)
        results == BuildResultsTemplate(fmt)
        supplementary_feature_array ==
            SupplementaryArray(feature_indices, supplementary_feature_label)
    IN IF ~HasExpressionMatrix THEN Raised("KeyError", <<>>)
       ELSE IF ~DictHas(sample_lookup, sample_id) THEN Returned(results, feature_indices)
       ELSE LET sample_index == DictGet(sample_lookup, sample_id)
                feature_slices == DictValues(feature_indices)
                feature_expressions == RowSlice(sample_index, feature_slices)
            IN IF feature_slices = <<>> /\ ~lib.empty_selection
               THEN Raised("LibraryError", feature_indices)
               ELSE IF fmt = JSON
               THEN Returned([results EXCEPT
                                !.features = DictKeys(feature_indices),
                                !.expression = DictSet(results.expression, sample_id,
                                                       feature_expressions)],
                             feature_indices)
               ELSE Returned(WriteHdf5Results(results, <<Encode(sample_id)>>,
                        EncodeAll(DictKeys(feature_indices)), <<feature_expressions>>,
                        supplementary_feature_array), feature_indices)

\* a test that forgets the name list given together with an accession list
ConflictingListsIdOnly(feature_list_id, feature_list_accession, feature_list_name) ==
    /\ feature_list_accession # <<>> \/ feature_list_name # <<>>
    /\ feature_list_id # <<>>

\* the two nested tests that end in raise ValueError("Invalid argument
\* values provided")
ConflictingLists(feature_list_id, feature_list_accession, feature_list_name) ==
    /\ feature_list_accession # <<>> \/ feature_list_name # <<>>
    /\ \/ feature_list_id # <<>>
       \/ (feature_list_accession # <<>> /\ feature_list_name # <<>>)

\* search(sample_id, feature_list_id, feature_list_accession, feature_list_name);
\* None and the empty string / list are alike to its truth tests
Search(sample_id, feature_list_id, feature_list_accession, feature_list_name, fmt, lib) ==
    LET by_label == feature_list_accession # <<>> \/ feature_list_name # <<>>
        resolved == IF feature_list_name # <<>>
                    THEN ResolveFeatures("gene_symbol", feature_list_name)
                    ELSE ResolveFeatures("accession_numbers", feature_list_accession)
        ids == IF by_label THEN resolved.ids ELSE feature_list_id
        supplementary_feature_label ==
            IF by_label THEN EncodeLabels(resolved.labels) ELSE <<>>
    IN IF ConflictingLists(feature_list_id, feature_list_accession, feature_list_name)
       THEN Raised("ValueError", <<>>)
       ELSE IF sample_id # <<>> /\ ids # <<>>
       THEN SearchSampleFeatures(sample_id, ids, supplementary_feature_label, fmt, lib)
       ELSE IF sample_id # <<>>
       THEN SearchSample(sample_id, fmt)
       ELSE IF ids # <<>>
       THEN SearchFeatures(ids, <<>>, "", supplementary_feature_label, fmt, lib)
       ELSE Raised("ValueError", <<>>)

----------------------------------------------------------------------------
(* ExpressionQueryTool.search_threshold *)

RECURSIVE ResolveThresholds(_, _)
\* the loop over ft_list for feature_label "name" / "accession": the ids
\* found, the pairs rewritten to ids, and the supplementary labels
ResolveThresholds(df_key, ft_list) ==
    IF ft_list = <<>> THEN [ids |-> <<>>, pairs |-> <<>>, labels |-> <<>>]
    ELSE LET n == Len(ft_list)
             sofar == ResolveThresholds(df_key, SubSeq(ft_list, 1, n - 1))
             feature == ft_list[n][1]
             threshold == ft_list[n][2]
             df_lookup == DfLookup(df_key, feature)
         IN IF DOMAIN df_lookup # {}
            THEN LET gene_id == FirstValue(df_lookup)
                 IN [ids |-> Append(sofar.ids, gene_id),
                     pairs |-> Append(sofar.pairs, <<gene_id, threshold>>),
                     labels |-> DictSet(sofar.labels, gene_id, feature)]
            ELSE sofar

\* search_threshold(ft_list, ft_type, feature_label)
SearchThreshold(ft_list, ft_type, feature_label, fmt, lib) ==
    IF ft_list = <<>> THEN Raised("IndexError", <<>>)
    ELSE IF feature_label \notin {"id", "name", "accession"}
    THEN Raised("ValueError", <<>>)
    ELSE IF feature_label = "id"
    THEN SearchFeatures([i \in 1..Len(ft_list) |-> ft_list[i][1]], ft_list, ft_type,
                        <<>>, fmt, lib)
    ELSE LET resolved == ResolveThresholds(
                 IF feature_label = "name" THEN "gene_symbol" ELSE "accession_numbers",
                 ft_list)
         IN SearchFeatures(resolved.ids, resolved.pairs, ft_type,
                           EncodeLabels(resolved.labels), fmt, lib)

----------------------------------------------------------------------------
(* The raw counts of a result (include_metadata=True) *)

\* get_raw_counts: self._file["metadata/counts"]
RawCounts == counts

\* counts[r, feature_slices]
CountsRowSlice(r, feature_slices) ==
    [j \in 1..Len(feature_slices) |-> RawCounts[r + 1][feature_slices[j] + 1]]

\* counts[:, feature_slices]: one row per sample of the file
CountsColumnSlices(feature_slices) ==
    [i \in 1..Len(RawCounts) |-> CountsRowSlice(i - 1, feature_slices)]

\* the results dict of an engine constructed with include_metadata=True
JsonWithCounts(results, raw_counts) ==
    [format |-> JSON, features |-> results.features, expression |-> results.expression,
     raw_counts |-> raw_counts]

\* _write_hdf5_metadata: a dataset of shape (num_samples, num_features) is
\* created and the block assigned to it; a block of one row is broadcast,
\* any other shape is refused; whether a dataset without cells can be made
\* is the library's matter (zero_size)
WriteHdf5Metadata(results, num_samples, num_features, block, zero_size) ==
    IF (num_samples = 0 \/ num_features = 0) /\ ~zero_size
    THEN Raised("ValueError", <<>>)
    ELSE IF \/ Len(block) \notin {num_samples, 1}
            \/ \E i \in 1..Len(block) : Len(block[i]) # num_features
    THEN Raised("TypeError", <<>>)
    ELSE Returned([format |-> H5,
                   datasets |-> results.datasets \cup {"metadata/counts"},
                   features |-> results.features,
                   samples |-> results.samples,
                   expression |-> results.expression,
                   counts |-> [i \in 1..num_samples |->
                                 block[IF Len(block) = 1 THEN 1 ELSE i]]], <<>>)

\* the include_metadata part of _search_sample, after the part modelled by
\* SearchSample has returned `outcome`
SearchSampleCounts(outcome, sample_id, fmt, zero_size) ==
    LET sample_lookup == GetHdf5Indices(samples, <<sample_id>>)
    IN IF outcome.status # "ok" THEN outcome
       ELSE IF ~DictHas(sample_lookup, sample_id)
       THEN IF fmt = JSON THEN Returned(JsonWithCounts(outcome.results, <<>>), <<>>)
            ELSE outcome
       ELSE LET sample_counts == RawCounts[DictGet(sample_lookup, sample_id) + 1]
            IN IF fmt = JSON
               THEN Returned(JsonWithCounts(outcome.results,
                                            <<<<sample_id, sample_counts>>>>), <<>>)
               ELSE WriteHdf5Metadata(outcome.results, 1, Len(features),
                                      <<sample_counts>>, zero_size)

\* the include_metadata part of the branch "if sample_id and
\* feature_list_id" of search()
SearchSampleFeaturesCounts(outcome, sample_id, fmt, zero_size) ==
    LET sample_lookup == GetHdf5Indices(samples, <<sample_id>>)
        feature_slices == DictValues(outcome.indices)
    IN IF outcome.status # "ok" THEN outcome
       ELSE IF ~DictHas(sample_lookup, sample_id)
       THEN IF fmt = JSON
            THEN Returned(JsonWithCounts(outcome.results, <<>>), outcome.indices)
            ELSE outcome
       ELSE LET feature_counts ==
                    CountsRowSlice(DictGet(sample_lookup, sample_id), feature_slices)
            IN IF fmt = JSON
               THEN Returned(JsonWithCounts(outcome.results,
                                            <<<<sample_id, feature_counts>>>>),
                             outcome.indices)
               ELSE WriteHdf5Metadata(outcome.results, 1, Len(outcome.indices),
                                      <<feature_counts>>, zero_size)

\* the include_metadata part of _search_features
SearchFeaturesCounts(outcome, ft_list, ft_type, fmt, zero_size) ==
    LET idx == outcome.indices
        feature_slices == DictValues(idx)
        feature_counts == CountsColumnSlices(feature_slices)
        sliced == SliceFrame(DataFrame(ColumnSlices(feature_slices)), idx, ft_list, ft_type)
        samples_list == IF ft_list # <<>> /\ ft_type # ""
                        THEN [i \in 1..Len(sliced.df) |->
                                 Decode(samples[sliced.df[i][1] + 1])]
                        ELSE DecodeAll(samples)
    IN IF outcome.status # "ok" THEN outcome
       ELSE IF fmt = JSON
       THEN Returned(JsonWithCounts(outcome.results,
                                    DictFromZip(samples_list, ZipStar(feature_counts))),
                     idx)
       ELSE WriteHdf5Metadata(outcome.results, Len(samples_list), Len(idx),
                              feature_counts, zero_size)

\* search() on an engine constructed with include_metadata=True
SearchWithMetadata(sample_id, feature_list_id, feature_list_accession, feature_list_name, fmt, lib, zero_size) ==
    LET outcome == Search(sample_id, feature_list_id, feature_list_accession,
                          feature_list_name, fmt, lib)
        by_label == feature_list_accession # <<>> \/ feature_list_name # <<>>
        resolved == IF feature_list_name # <<>>
                    THEN ResolveFeatures("gene_symbol", feature_list_name)
                    ELSE ResolveFeatures("accession_numbers", feature_list_accession)
        ids == IF by_label THEN resolved.ids ELSE feature_list_id
    IN IF sample_id # <<>> /\ ids # <<>>
       THEN SearchSampleFeaturesCounts(outcome, sample_id, fmt, zero_size)
       ELSE IF sample_id # <<>>
       THEN SearchSampleCounts(outcome, sample_id, fmt, zero_size)
       ELSE SearchFeaturesCounts(outcome, <<>>, "", fmt, zero_size)

\* search_threshold() on an engine constructed with include_metadata=True
SearchThresholdWithMetadata(ft_list, ft_type, feature_label, fmt, lib, zero_size) ==
    LET outcome == SearchThreshold(ft_list, ft_type, feature_label, fmt, lib)
        pairs == IF feature_label = "id" THEN ft_list
                 ELSE ResolveThresholds(IF feature_label = "name" THEN "gene_symbol"
                                        ELSE "accession_numbers", ft_list).pairs
    IN SearchFeaturesCounts(outcome, pairs, ft_type, fmt, zero_size)

----------------------------------------------------------------------------
(* api.operations.convert_threshold_array *)

\* float(text) accepts the text: here, a non-empty run of decimal digits
IsFloatText(text) ==
    /\ text # <<>>
    /\ \A i \in 1..Len(text) : text[i] \in 48..57

RECURSIVE FloatOf(_)
\* float(text) of a run of decimal digits
FloatOf(text) ==
    IF text = <<>> THEN 0
    ELSE 10 * FloatOf(SubSeq(text, 1, Len(text) - 1)) + (text[Len(text)] - 48)

\* what convert_threshold_array hands back: the pair list, or the exception
Converted(pairs) == [status |-> "ok", results |-> [format |-> "pairs", pairs |-> pairs],
                     indices |-> <<>>]

\* convert_threshold_array(threshold_input, input_format): an 'array' input
\* is a flat list of texts (len(None) raises TypeError when the parameter is
\* absent), an 'object' input a mapping (feature, text) or, as a list of
\* objects, something without .items()
ConvertThresholdArray(threshold_input, input_format) ==
    IF input_format = "array" /\ threshold_input.kind = "none"
    THEN Raised("TypeError", <<>>)
    ELSE IF input_format = "array"
    THEN LET n == Len(threshold_input.items) \div 2
         IN IF \E i \in 0..(n - 1) : ~IsFloatText(threshold_input.items[2 * i + 2])
            THEN Raised("ThresholdValueError", <<>>)
            ELSE Converted([i \in 1..n |-> <<threshold_input.items[2 * i - 1],
                                             FloatOf(threshold_input.items[2 * i])>>])
    ELSE IF input_format = "object"
    THEN IF threshold_input.kind # "mapping" THEN Raised("AttributeError", <<>>)
         ELSE IF \E i \in 1..Len(threshold_input.mapping) :
                    ~IsFloatText(threshold_input.mapping[i].v)
         THEN Raised("ThresholdValueError", <<>>)
         ELSE Converted([i \in 1..Len(threshold_input.mapping) |->
                            <<threshold_input.mapping[i].k,
                              FloatOf(threshold_input.mapping[i].v)>>])
    ELSE Raised("ThresholdValueError", <<>>)

----------------------------------------------------------------------------
(* The matrix files and the requests of the model *)

\* all sequences over S of length lo..hi
SeqsOf(S, lo, hi) == UNION {[1..n -> S] : n \in lo..hi}

\* expression values and thresholds (stand-ins for 64-bit floats)
Values == {0, 1, 2}

Thresholds == {0, 1}

\* layouts of the samples axis (ingestion stores a sample identifier once)
SampleAxes == {<<>>, <<S1>>, <<S1, S2>>}

\* layouts of the features axis: one feature, two in either order, and an
\* identifier stored twice
FeatureAxes == {<<F1>>, <<F2>>, <<F1, F2>>, <<F2, F1>>, <<F1, F1>>}

\* an axis as stored on disk: dtype "S20" slots of the encoded identifiers
StoredAxis(ids) == [i \in 1..Len(ids) |-> Store20(Encode(ids[i]))]

\* what a request may name: no sample, or a sample stored by some files and
\* not by others; feature ids likewise; names and accessions of the mapping
\* table and one it does not hold
RequestSamples == {<<>>, S1, S2}

RequestFeatureIds == {F1, F2}

RequestNames == {N1, N2, N9}

RequestAccessions == {A1, A9}

\* the names a threshold pair may hold: one of the mapping table, one not
ThresholdNames == {N1, N9}

\* the raw counts of the matrix files the engine is run on: every cell
\* holds a value of its own
PositionalCounts ==
    [r \in 1..Len(samples) |-> [c \in 1..Len(features) |-> 10 * r + c]]

NoCall == [op |-> "none"]

NoResult == [status |-> "none", results |-> [format |-> "none"], indices |-> <<>>]

\* no request is being served
NoApi == [status |-> "none"]

\* ExpressionQueryTool.__init__: the instance is open on a matrix file, with
\* an output format of SUPPORTED_OUTPUT_FORMATS
Init ==
    /\ \E sample_ids \in SampleAxes, feature_ids \in FeatureAxes :
          /\ samples = StoredAxis(sample_ids)
          /\ features = StoredAxis(feature_ids)
          /\ expression \in [1..Len(sample_ids) -> [1..Len(feature_ids) -> Values]]
    /\ input_file = "matrix"
    /\ handle = "open"
    /\ output_format \in {JSON, H5}
    /\ library \in LibraryBehaviours
    /\ counts = PositionalCounts
    /\ pc = "opened"
    /\ call = NoCall
    /\ result = NoResult
    /\ api = NoApi
    /\ held = <<>>

\* most results objects of earlier calls a caller holds on to
MaxHeld == 2

\* h5py.File(self._output_file, 'w', driver='core') while an earlier results
\* file of the same path is still open: the library refuses to truncate an
\* open file (OSError), or truncates it
ReopenBehaviours == {"refused", "truncated"}

\* the call got as far as _build_results_template: the template is built
\* right after get_expression_matrix(); the ValueError of search() and the
\* IndexError of search_threshold() are raised before it
TemplateBuilt(op, outcome) ==
    /\ outcome.status # "KeyError"
    /\ op = "search" => outcome.status # "ValueError"
    /\ op = "search_threshold" => outcome.status # "IndexError"

\* the results files of earlier calls after 'w' has truncated their path
Overwritten(objects) ==
    [i \in 1..Len(objects) |->
        IF objects[i] \in {"open", "closed"} THEN "overwritten" ELSE objects[i]]

\* what a query call hands back on an instance that has handed out results
\* objects before: in ".h5" mode every template is created at the one path
\* self._output_file
OnInstance(op, outcome) ==
    IF output_format = H5 /\ TemplateBuilt(op, outcome)
    THEN IF \E i \in 1..Len(held) : held[i] = "open"
         THEN \E reopen \in ReopenBehaviours :
                 IF reopen = "refused"
                 THEN /\ result' = Raised("OSError", <<>>)
                      /\ held' = held
                 ELSE /\ result' = outcome
                      /\ held' = Overwritten(held)
         ELSE /\ result' = outcome
              /\ held' = Overwritten(held)
    ELSE /\ result' = outcome
         /\ held' = held

\* the list arguments of a search() call: at most one list of up to MaxList
\* values, or two or three one-value lists together
RequestLists ==
    {[feature_list_id |-> l, feature_list_accession |-> <<>>, feature_list_name |-> <<>>] :
        l \in SeqsOf(RequestFeatureIds, 0, MaxList)}
    \cup {[feature_list_id |-> <<>>, feature_list_accession |-> <<>>, feature_list_name |-> l] :
        l \in SeqsOf(RequestNames, 0, MaxList)}
    \cup {[feature_list_id |-> <<>>, feature_list_accession |-> l, feature_list_name |-> <<>>] :
        l \in SeqsOf(RequestAccessions, 0, MaxList)}
    \cup {x \in [feature_list_id : {<<>>, <<F1>>}, feature_list_accession : {<<>>, <<A1>>},
                  feature_list_name : {<<>>, <<N1>>}] :
             Cardinality({k \in DOMAIN x : x[k] # <<>>}) >= 2}

\* a call of search() with a sample identifier and / or feature lists
SearchCall ==
    /\ pc = "opened"
    /\ \E sample_id \in RequestSamples, lists \in RequestLists :
          /\ call' = [op |-> "search", sample_id |-> sample_id,
                      feature_list_id |-> lists.feature_list_id,
                      feature_list_accession |-> lists.feature_list_accession,
                      feature_list_name |-> lists.feature_list_name]
          /\ OnInstance("search",
                        Search(sample_id, lists.feature_list_id,
                               lists.feature_list_accession, lists.feature_list_name,
                               output_format, library))
    /\ pc' = "queried"
    /\ UNCHANGED <<input_file, handle, samples, features, expression, counts, output_format,
                   library,
                   api>>

\* a call of search_threshold()
ThresholdCall ==
    /\ pc = "opened"
    /\ \E ft_type \in {"min", "max"}, feature_label \in {"id", "name"} :
          \E ft_list \in SeqsOf((IF feature_label = "id" THEN RequestFeatureIds
                                  ELSE ThresholdNames) \X Thresholds, 0, MaxList) :
             /\ call' = [op |-> "search_threshold", ft_list |-> ft_list,
                         ft_type |-> ft_type, feature_label |-> feature_label]
             /\ OnInstance("search_threshold",
                           SearchThreshold(ft_list, ft_type, feature_label,
                                           output_format, library))
    /\ pc' = "queried"
    /\ UNCHANGED <<input_file, handle, samples, features, expression, counts, output_format,
                   library,
                   api>>

\* an axis lookup on its own: any axis layout (identifiers may repeat), any
\* identifier list
InitIndex ==
    /\ \E sample_ids \in SeqsOf({S1, S2}, 0, MaxAxis),
          feature_ids \in SeqsOf({F1, F2}, 0, MaxAxis) :
          /\ samples = StoredAxis(sample_ids)
          /\ features = StoredAxis(feature_ids)
          /\ expression = [i \in 1..Len(sample_ids) |-> [j \in 1..Len(feature_ids) |-> 0]]
    /\ input_file = "matrix"
    /\ handle = "open"
    /\ output_format \in {JSON, H5}
    /\ library \in LibraryBehaviours
    /\ counts = PositionalCounts
    /\ pc = "opened"
    /\ call = NoCall
    /\ result = NoResult
    /\ api = NoApi
    /\ held = <<>>

\* self._file[axis][:]
AxisArray(axis) == IF axis = "axis/samples" THEN samples ELSE features

IndexCall ==
    /\ pc = "opened"
    /\ \E axis \in {"axis/samples", "axis/features"} :
          \E id_list \in SeqsOf(IF axis = "axis/samples" THEN {S1, S2, SX}
                                 ELSE RequestFeatureIds, 0, MaxList) :
             /\ call' = [op |-> "_get_hdf5_indices", axis |-> axis, id_list |-> id_list]
             /\ result' = Returned([format |-> "none"],
                                   GetHdf5Indices(AxisArray(axis), id_list))
    /\ pc' = "queried"
    /\ UNCHANGED <<input_file, handle, samples, features, expression, counts, output_format,
                   library,
                   api, held>>

IndexNext == IndexCall

\* SUPPORTED_OUTPUT_FORMATS
SupportedOutputFormats == {JSON, H5}

\* values of the argument output_type: the supported ones, the API layer's
\* spelling without the dot, and a format nobody writes
OutputTypes == {JSON, H5, "json", "xml"}

\* self._output_format before __init__ has set it
NoFormat == "unset"

\* expression values of the files an engine is constructed on
LifecycleValues == {0, 1}

\* before ExpressionQueryTool(...): the input path holds nothing, an HDF5
\* file without the expression dataset, or a matrix file
InitNew ==
    /\ input_file \in {"missing", "bare", "matrix"}
    /\ IF input_file = "matrix"
       THEN \E sample_ids \in {<<S1>>, <<S1, S2>>}, feature_ids \in {<<F1>>, <<F1, F2>>} :
               /\ samples = StoredAxis(sample_ids)
               /\ features = StoredAxis(feature_ids)
               /\ expression \in [1..Len(sample_ids) ->
                                     [1..Len(feature_ids) -> LifecycleValues]]
       ELSE /\ samples = <<>>
            /\ features = <<>>
            /\ expression = <<>>
    /\ handle = "none"
    /\ output_format = NoFormat
    /\ library \in LibraryBehaviours
    /\ counts = PositionalCounts
    /\ pc = "new"
    /\ call = NoCall
    /\ result = NoResult
    /\ api = NoApi
    /\ held = <<>>

\* ExpressionQueryTool.__init__: h5py.File(input_file, 'r') first, then the
\* test of output_type
Construct ==
    /\ pc = "new"
    /\ \E output_type \in OutputTypes :
          /\ call' = [op |-> "__init__", output_type |-> output_type]
          /\ IF input_file = "missing"
             THEN /\ result' = Raised("OSError", <<>>)
                  /\ pc' = "failed"
                  /\ UNCHANGED <<handle, output_format>>
             ELSE /\ handle' = "open"
                  /\ IF output_type \notin SupportedOutputFormats
                     THEN /\ result' = Raised("ValueError", <<>>)
                          /\ pc' = "failed"
                          /\ UNCHANGED output_format
                     ELSE /\ result' = NoResult
                          /\ pc' = "opened"
                          /\ output_format' = output_type
    /\ UNCHANGED <<input_file, samples, features, expression, counts, library, api, held>>

\* ExpressionQueryTool.close
Close ==
    /\ pc \in {"opened", "queried"}
    /\ handle' = "closed"
    /\ pc' = "closed"
    /\ UNCHANGED <<input_file, samples, features, expression, counts, output_format, library,
                   call, result, api, held>>

\* longest threshold array of a request
MaxArray == 4

\* texts of a threshold array: feature labels, numbers, and a word
ThresholdTexts == {F1, N1, <<48>>, <<49>>, <<110, 111>>}

\* threshold inputs: flat arrays; mappings feature -> text; lists of objects
\* (each a set of field names)
ThresholdInputs ==
    {[kind |-> "array", items |-> a] : a \in SeqsOf(ThresholdTexts, 0, MaxArray)}
    \cup {[kind |-> "mapping", mapping |-> a] :
             a \in {<<>>} \cup {<<[k |-> F1, v |-> t]>> : t \in ThresholdTexts}}
    \cup {[kind |-> "objects", objects |-> a] :
             a \in SeqsOf(SUBSET {"featureName", "threshold"}, 1, 1)}

\* a caller about to convert a threshold input; no engine is involved
InitConvert ==
    /\ input_file = "matrix"
    /\ handle = "none"
    /\ samples = <<>>
    /\ features = <<>>
    /\ expression = <<>>
    /\ output_format = NoFormat
    /\ library \in LibraryBehaviours
    /\ counts = PositionalCounts
    /\ pc = "api"
    /\ call = NoCall
    /\ result = NoResult
    /\ api = NoApi
    /\ held = <<>>

ConvertCall ==
    /\ pc = "api"
    /\ \E threshold_input \in ThresholdInputs :
          LET input_format == IF threshold_input.kind = "array" THEN "array" ELSE "object"
          IN /\ call' = [op |-> "convert_threshold_array",
                         threshold_input |-> threshold_input,
                         input_format |-> input_format]
             /\ result' = ConvertThresholdArray(threshold_input, input_format)
    /\ pc' = "converted"
    /\ UNCHANGED <<input_file, handle, samples, features, expression, counts, output_format,
                   library, api, held>>

ConvertNext == ConvertCall

SpecConvert == InitConvert /\ [][ConvertNext]_vars

(* api.operations: get_search_expressions and slice_expression_data *)

\* most expression files one request scans
MaxFiles == 2

\* a threshold parameter that the request does not carry (None)
NoThreshold == [kind |-> "none"]

\* Python truthiness of a threshold parameter: None and [] are false
Truthy(threshold) == threshold.kind = "array" /\ threshold.items # <<>>

\* the query parameter `output`: the documented values, the engine's
\* spellings of them, and a format nobody writes
FileTypes == {"json", "h5", JSON, H5, "xml"}

\* minExpression / maxExpression of a request: absent, a pair some sample
\* passes, a pair no sample passes as a minimum, a word in the threshold
\* position, an array of odd length, a feature that is on no axis
ApiThresholds ==
    {NoThreshold}
    \cup {[kind |-> "array", items |-> a] :
             a \in {<<F1, <<48>>>>, <<F1, <<50>>>>, <<F1, <<110, 111>>>>, <<F1>>,
                    <<FX, <<48>>>>}}

\* the parameters of a search request
ApiRequests ==
    [sampleID : {<<>>, S1, SX},
     featureIDList : {<<>>, <<F1>>},
     featureNameList : {<<>>, <<N9>>},
     featureAccessionList : {<<>>, <<A1>>},
     minExpression : ApiThresholds,
     maxExpression : {NoThreshold, [kind |-> "array", items |-> <<F1, <<48>>>>],
                      [kind |-> "array", items |-> <<F1, <<110, 111>>>>]},
     featureThresholdLabel : {"id", "name"},
     output : FileTypes]

\* any([sampleID, featureIDList, featureNameList, featureAccessionList,
\*      maxExpression, minExpression])
AnySliceParameter(request) ==
    \/ request.sampleID # <<>>
    \/ request.featureIDList # <<>>
    \/ request.featureNameList # <<>>
    \/ request.featureAccessionList # <<>>
    \/ Truthy(request.maxExpression)
    \/ Truthy(request.minExpression)

\* the query slice_expression_data issues on the engine it has constructed
SliceQuery(request, fmt, lib) ==
    IF \/ request.sampleID # <<>>
       \/ request.featureIDList # <<>>
       \/ request.featureNameList # <<>>
    THEN Search(request.sampleID, request.featureIDList, <<>>, request.featureNameList,
                fmt, lib)
    ELSE LET is_min == Truthy(request.minExpression)
             threshold_array ==
                 ConvertThresholdArray(IF is_min THEN request.minExpression
                                       ELSE request.maxExpression, "array")
         IN IF threshold_array.status # "ok" THEN threshold_array
            ELSE SearchThreshold(threshold_array.results.pairs,
                                 IF is_min THEN "min" ELSE "max",
                                 request.featureThresholdLabel, fmt, lib)

\* the exceptions slice_expression_data catches (OSError, LookupError)
IsCaught(status) == status \in {"OSError", "KeyError", "IndexError"}

\* the file record generate_file_response builds for expression file number n
FileRecord(n, file_type) == [studyID |-> n, fileType |-> file_type]

\* a request has arrived: the filters have selected a list of expression
\* files (each path holding nothing, a file without the expression dataset,
\* or the matrix file of the model)
InitApi ==
    /\ samples = StoredAxis(<<S1, S2>>)
    /\ features = StoredAxis(<<F1, F2>>)
    /\ expression = <<<<0, 2>>, <<2, 1>>>>
    /\ input_file = "missing"
    /\ handle = "none"
    /\ output_format = NoFormat
    /\ library \in LibraryBehaviours
    /\ counts = PositionalCounts
    /\ pc = "api"
    /\ call = NoCall
    /\ result = NoResult
    /\ held = <<>>
    /\ \E request \in ApiRequests,
          expressions \in SeqsOf({"missing", "bare", "matrix"}, 0, MaxFiles) :
          api = [status |-> "running", error |-> "none", request |-> request,
                 expressions |-> expressions, cursor |-> 1, handles |-> <<>>,
                 written |-> <<>>, records |-> <<>>, responses |-> <<>>]

\* an exception leaves the handler: ThresholdValueError is answered with
\* 400, anything else is not handled
Propagate(status) ==
    IF status = "ThresholdValueError" THEN [api EXCEPT !.status = "400"]
    ELSE [api EXCEPT !.status = "error", !.error = status]

\* slice_expression_data, first half: ExpressionQueryTool(expr.__filepath__,
\* ..., output_type=file_type) for the next expression file
SliceOpen ==
    /\ pc = "api"
    /\ api.status = "running"
    /\ AnySliceParameter(api.request)
    /\ api.cursor <= Len(api.expressions)
    /\ input_file' = api.expressions[api.cursor]
    /\ call' = [op |-> "__init__", output_type |-> api.request.output]
    /\ IF api.expressions[api.cursor] = "missing"
       THEN /\ result' = Raised("OSError", <<>>)
            /\ api' = [api EXCEPT !.cursor = @ + 1, !.handles = Append(@, "none")]
            /\ handle' = "none"
            /\ UNCHANGED <<pc, output_format>>
       ELSE /\ handle' = "open"
            /\ IF api.request.output \notin SupportedOutputFormats
               THEN /\ result' = Raised("ValueError", <<>>)
                    /\ api' = [Propagate("ValueError") EXCEPT !.handles = Append(@, "open")]
                    /\ UNCHANGED <<pc, output_format>>
               ELSE /\ result' = NoResult
                    /\ pc' = "opened"
                    /\ output_format' = api.request.output
                    /\ UNCHANGED api
    /\ UNCHANGED <<samples, features, expression, counts, library, held>>

\* slice_expression_data, second half: the query, close(), and
\* generate_file_response with create_tmp_file_record
SliceRun ==
    /\ pc = "opened"
    /\ api.status = "running"
    /\ LET q == SliceQuery(api.request, output_format, library)
           file_type == api.request.output
       IN /\ call' = [op |-> "slice_expression_data", file |-> api.cursor]
          /\ result' = q
          /\ IF q.status = "ok"
             THEN /\ handle' = "closed"
                  /\ IF file_type \in {"json", "h5"}
                     THEN api' = [api EXCEPT
                                     !.cursor = @ + 1,
                                     !.handles = Append(@, "closed"),
                                     !.written = Append(@, api.cursor),
                                     !.records = Append(@, FileRecord(api.cursor, file_type)),
                                     !.responses = Append(@, FileRecord(api.cursor, file_type))]
                     ELSE api' = [Propagate("ValueError") EXCEPT
                                     !.handles = Append(@, "closed")]
             ELSE /\ UNCHANGED handle
                  /\ IF IsCaught(q.status)
                     THEN api' = [api EXCEPT !.cursor = @ + 1,
                                             !.handles = Append(@, "open")]
                     ELSE api' = [Propagate(q.status) EXCEPT
                                     !.handles = Append(@, "open")]
    /\ pc' = "api"
    /\ UNCHANGED <<input_file, samples, features, expression, counts, output_format, library, held>>

\* get_search_expressions returns: the list of file records after the loop,
\* or the list of expression files when nothing is to be sliced
Respond ==
    /\ pc = "api"
    /\ api.status = "running"
    /\ \/ ~AnySliceParameter(api.request)
       \/ api.cursor > Len(api.expressions)
    /\ api' = [api EXCEPT
                  !.status = "200",
                  !.responses = IF AnySliceParameter(api.request) THEN @
                                ELSE [n \in 1..Len(api.expressions) |->
                                         FileRecord(n, "h5")]]
    /\ UNCHANGED <<input_file, handle, samples, features, expression, counts, output_format,
                   library, pc, call, result, held>>

ApiNext == SliceOpen \/ SliceRun \/ Respond

SpecApi == InitApi /\ [][ApiNext]_vars

\* an engine open on the matrix file of the model; the caller holds no
\* results object yet
InitSession ==
    /\ samples = StoredAxis(<<S1, S2>>)
    /\ features = StoredAxis(<<F1, F2>>)
    /\ expression = <<<<0, 2>>, <<2, 1>>>>
    /\ input_file = "matrix"
    /\ handle = "open"
    /\ output_format \in {JSON, H5}
    /\ library \in LibraryBehaviours
    /\ counts = PositionalCounts
    /\ pc = "opened"
    /\ call = NoCall
    /\ result = NoResult
    /\ api = NoApi
    /\ held = <<>>

\* the caller keeps the results object of the call just made (a dict, or a
\* results file still open) and is ready to call the instance again
KeepResults ==
    /\ pc = "queried"
    /\ api = NoApi
    /\ Len(held) < MaxHeld
    /\ held' = IF result.status # "ok" THEN held
               ELSE Append(held, IF result.results.format = JSON THEN "dict" ELSE "open")
    /\ pc' = "opened"
    /\ UNCHANGED <<input_file, handle, samples, features, expression, counts, output_format,
                   library, call, result, api>>

\* the caller closes a results file it holds, as generate_file_response
\* does: the in-memory file is written to its path
CloseResults ==
    /\ pc = "opened"
    /\ \E i \in 1..Len(held) :
          /\ held[i] = "open"
          /\ held' = [held EXCEPT ![i] = "closed"]
    /\ UNCHANGED <<input_file, handle, samples, features, expression, counts, output_format,
                   library, pc, call, result, api>>

SessionNext == SearchCall \/ ThresholdCall \/ KeepResults \/ CloseResults \/ Close

SpecSession == InitSession /\ [][SessionNext]_vars

\* an engine constructed with include_metadata=True, open on a matrix file
\* that holds at least one sample
InitMetadata ==
    /\ \E sample_ids \in {<<S1>>, <<S1, S2>>},
          feature_ids \in {<<F1>>, <<F1, F2>>, <<F2, F1>>} :
          /\ samples = StoredAxis(sample_ids)
          /\ features = StoredAxis(feature_ids)
          /\ expression \in [1..Len(sample_ids) -> [1..Len(feature_ids) -> LifecycleValues]]
    /\ input_file = "matrix"
    /\ handle = "open"
    /\ output_format \in {JSON, H5}
    /\ library \in LibraryBehaviours
    /\ counts = PositionalCounts
    /\ pc = "opened"
    /\ call = NoCall
    /\ result = NoResult
    /\ api = NoApi
    /\ held = <<>>

\* search() with include_metadata=True
MetadataSearchCall ==
    /\ pc = "opened"
    /\ \E sample_id \in RequestSamples, lists \in RequestLists, zero_size \in BOOLEAN :
          /\ call' = [op |-> "search", sample_id |-> sample_id,
                      feature_list_id |-> lists.feature_list_id,
                      feature_list_accession |-> lists.feature_list_accession,
                      feature_list_name |-> lists.feature_list_name,
                      include_metadata |-> TRUE]
          /\ result' = SearchWithMetadata(sample_id, lists.feature_list_id,
                          lists.feature_list_accession, lists.feature_list_name,
                          output_format, library, zero_size)
    /\ pc' = "queried"
    /\ UNCHANGED <<input_file, handle, samples, features, expression, counts, output_format,
                   library,
                   api, held>>

\* search_threshold() with include_metadata=True
MetadataThresholdCall ==
    /\ pc = "opened"
    /\ \E ft_type \in {"min", "max"}, feature_label \in {"id", "name"},
          zero_size \in BOOLEAN :
          \E ft_list \in SeqsOf((IF feature_label = "id" THEN RequestFeatureIds
                                  ELSE ThresholdNames) \X Thresholds, 0, MaxList) :
             /\ call' = [op |-> "search_threshold", ft_list |-> ft_list,
                         ft_type |-> ft_type, feature_label |-> feature_label,
                         include_metadata |-> TRUE]
             /\ result' = SearchThresholdWithMetadata(ft_list, ft_type, feature_label,
                                                      output_format, library, zero_size)
    /\ pc' = "queried"
    /\ UNCHANGED <<input_file, handle, samples, features, expression, counts, output_format,
                   library,
                   api, held>>

MetadataNext == MetadataSearchCall \/ MetadataThresholdCall

SpecMetadata == InitMetadata /\ [][MetadataNext]_vars

\* json.dump can serialise the results dict: the rows of a threshold result
\* are numpy arrays, which it refuses
IsSerialisable(results) ==
    /\ results.format = JSON
    /\ ~(call.op = "search_threshold" /\ results.expression # <<>>)

\* generate_file_response has been called with the results object of a
\* query on the matrix file of the model and a file type
InitRespond ==
    /\ samples = StoredAxis(<<S1, S2>>)
    /\ features = StoredAxis(<<F1, F2>>)
    /\ expression = <<<<0, 2>>, <<2, 1>>>>
    /\ input_file = "matrix"
    /\ handle = "closed"
    /\ output_format \in {JSON, H5}
    /\ library \in LibraryBehaviours
    /\ counts = PositionalCounts
    /\ pc = "respond"
    /\ \/ \E sample_id \in RequestSamples, lists \in RequestLists :
             /\ call = [op |-> "search", sample_id |-> sample_id,
                        feature_list_id |-> lists.feature_list_id,
                        feature_list_accession |-> lists.feature_list_accession,
                        feature_list_name |-> lists.feature_list_name]
             /\ result = Search(sample_id, lists.feature_list_id,
                                lists.feature_list_accession, lists.feature_list_name,
                                output_format, library)
       \/ \E ft_type \in {"min", "max"} :
             \E ft_list \in SeqsOf(RequestFeatureIds \X Thresholds, 1, MaxList) :
                /\ call = [op |-> "search_threshold", ft_list |-> ft_list,
                           ft_type |-> ft_type, feature_label |-> "id"]
                /\ result = SearchThreshold(ft_list, ft_type, "id", output_format, library)
    /\ result.status = "ok"
    /\ \E file_type \in FileTypes :
          api = [status |-> "running", error |-> "none",
                 request |-> [output |-> file_type],
                 expressions |-> <<"matrix">>, cursor |-> 1, handles |-> <<"closed">>,
                 partial |-> <<>>, written |-> <<>>, records |-> <<>>, responses |-> <<>>]
    /\ held = <<>>

\* generate_file_response up to the file record: the results are written
\* to the temporary file (json.dump, or close() of the in-memory results
\* file); the write returns, or raises and leaves what it had written
WriteOutputFile ==
    /\ pc = "respond"
    /\ api.status = "running"
    /\ LET file_type == api.request.output
           writable == IF file_type = "json" THEN IsSerialisable(result.results)
                       ELSE result.results.format = H5
       IN IF file_type \notin {"json", "h5"}
          THEN /\ api' = Propagate("ValueError")
               /\ pc' = "failed"
          ELSE \E completes \in BOOLEAN :
                  IF writable /\ completes
                  THEN /\ api' = [api EXCEPT !.written = Append(@, api.cursor)]
                       /\ pc' = "written"
                  ELSE /\ api' = [Propagate(IF writable THEN "OSError"
                                            ELSE IF file_type = "json" THEN "TypeError"
                                            ELSE "AttributeError")
                                  EXCEPT !.partial = IF file_type = "json"
                                                     THEN Append(@, api.cursor) ELSE @]
                       /\ pc' = "failed"
    /\ UNCHANGED <<input_file, handle, samples, features, expression, counts, output_format,
                   library, call, result, held>>

\* a record made while the output file is still to be written
CreateTmpFileRecordEarly ==
    /\ pc \in {"respond", "written"}
    /\ api.status = "running"
    /\ api.request.output \in {"json", "h5"}
    /\ \E stored \in BOOLEAN :
          api' = [api EXCEPT
                     !.status = "200",
                     !.records = IF stored
                                 THEN Append(@, FileRecord(api.cursor, api.request.output))
                                 ELSE @,
                     !.responses = IF stored
                                   THEN Append(@, FileRecord(api.cursor, api.request.output))
                                   ELSE Append(@, [studyID |-> api.cursor,
                                                   fileType |-> "error"])]
    /\ pc' = "recorded"
    /\ UNCHANGED <<input_file, handle, samples, features, expression, counts, output_format,
                   library, call, result, held>>

\* the rest of generate_file_response: the file record is built and
\* create_tmp_file_record stores it, or hands back an error when the
\* database refuses it
CreateTmpFileRecord ==
    /\ pc = "written"
    /\ api.status = "running"
    /\ \E stored \in BOOLEAN :
          api' = [api EXCEPT
                     !.status = "200",
                     !.records = IF stored
                                 THEN Append(@, FileRecord(api.cursor, api.request.output))
                                 ELSE @,
                     !.responses = IF stored
                                   THEN Append(@, FileRecord(api.cursor, api.request.output))
                                   ELSE Append(@, [studyID |-> api.cursor,
                                                   fileType |-> "error"])]
    /\ pc' = "recorded"
    /\ UNCHANGED <<input_file, handle, samples, features, expression, counts, output_format,
                   library, call, result, held>>

RespondNext == WriteOutputFile \/ CreateTmpFileRecord

SpecRespond == InitRespond /\ [][RespondNext]_vars

\* most samples the matrix file of an ingestion holds
MaxIngested == 3

\* most quantification files of one data directory
MaxQuantFiles == 2

\* self._file_ext of KallistoLoader: ".tsv"
FileExt == <<46, 116, 115, 118>>

\* two sample names of 21 characters that agree on the first 20
L1 == [i \in 1..21 |-> IF i <= 20 THEN 76 ELSE 49]

L2 == [i \in 1..21 |-> IF i <= 20 THEN 76 ELSE 50]

RECURSIVE StripLeft(_, _)
\* str.lstrip(chars)
StripLeft(text, chars) ==
    IF text # <<>> /\ \E i \in 1..Len(chars) : chars[i] = Head(text)
    THEN StripLeft(Tail(text), chars)
    ELSE text

RECURSIVE StripRight(_, _)
\* str.rstrip(chars)
StripRight(text, chars) ==
    IF text # <<>> /\ \E i \in 1..Len(chars) : chars[i] = text[Len(text)]
    THEN StripRight(SubSeq(text, 1, Len(text) - 1), chars)
    ELSE text

\* get_sample_id: quantfilename.strip(self._file_ext), encoded
GetSampleId(quantfilename) == Encode(StripRight(StripLeft(quantfilename, FileExt), FileExt))

\* the quantification files of the model: a file name and the table rows
\* <<target_id, tpm, est_counts>>, of one feature or of two
QuantFiles ==
    [quantfilename : {id \o FileExt : id \in {S1, S2, L1, L2}},
     table : {<<<<F1, 1, 11>>>>, <<<<F1, 2, 12>>, <<F2, 3, 13>>>>}]

\* get_file_list: the files of a data directory, each name once
QuantFileLists ==
    {l \in SeqsOf(QuantFiles, 1, MaxQuantFiles) :
        \A i, j \in 1..Len(l) : i # j => l[i].quantfilename # l[j].quantfilename}

\* Dataset.resize of a float matrix to ncols columns: rows are cut, or
\* filled up with the fill value 0
ResizeColumns(matrix, ncols) ==
    [r \in 1..Len(matrix) |->
        [c \in 1..ncols |-> IF c <= Len(matrix[r]) THEN matrix[r][c] ELSE 0]]

\* formatted_sample_id in samples[...]: some slot equals the identifier
IsStoredSample(stored, formatted_sample_id) ==
    \E i \in 1..Len(stored) : stored[i] = formatted_sample_id

\* the body of the loop of _ingest_expressions for one quantification file
IngestOne(file, quantfile) ==
    LET formatted_sample_id == GetSampleId(quantfile.quantfilename)
        quants == [i \in 1..Len(quantfile.table) |-> quantfile.table[i][2]]
        counted == [i \in 1..Len(quantfile.table) |-> quantfile.table[i][3]]
    IN IF IsStoredSample(file.samples, formatted_sample_id) THEN file
       ELSE [samples |-> Append(file.samples, Store20(formatted_sample_id)),
             expression |-> Append(ResizeColumns(file.expression, Len(quants)), quants),
             counts |-> Append(ResizeColumns(file.counts, Len(counted)), counted)]

RECURSIVE IngestExpressions(_, _)
\* _ingest_expressions: the loop over self._quantfilelist
IngestExpressions(file, quantfilelist) ==
    IF quantfilelist = <<>> THEN file
    ELSE IngestExpressions(IngestOne(file, Head(quantfilelist)), Tail(quantfilelist))

\* _ingest_features: an existing features axis is kept; a new one is the
\* target_id column of the first file of the list
IngestFeatures(mode, has_features, quantfilelist) ==
    IF mode = "r+" /\ has_features THEN features
    ELSE [i \in 1..Len(quantfilelist[1].table) |->
             Store20(Encode(quantfilelist[1].table[i][1]))]

\* no matrix file yet at the path the loader is given
InitIngest ==
    /\ input_file = "missing"
    /\ handle = "none"
    /\ samples = <<>>
    /\ features = <<>>
    /\ expression = <<>>
    /\ counts = <<>>
    /\ output_format = NoFormat
    /\ library \in LibraryBehaviours
    /\ pc = "ingest"
    /\ call = NoCall
    /\ result = NoResult
    /\ api = NoApi
    /\ held = <<>>

\* KallistoLoader(hdf5file, datadir, study_id).build_hdf5(): the file is
\* opened 'r+', or created when it cannot be; then _ingest_features,
\* _ingest_expressions and close
BuildHdf5 ==
    /\ pc = "ingest"
    /\ \E quantfilelist \in QuantFileLists :
          LET mode == IF input_file = "missing" THEN "w" ELSE "r+"
              file == IngestExpressions([samples |-> samples, expression |-> expression,
                                         counts |-> counts], quantfilelist)
          IN /\ Len(samples) + Len(quantfilelist) <= MaxIngested
             /\ call' = [op |-> "build_hdf5", quantfilelist |-> quantfilelist]
             /\ features' = IngestFeatures(mode, input_file = "matrix", quantfilelist)
             /\ samples' = file.samples
             /\ expression' = file.expression
             /\ counts' = file.counts
    /\ input_file' = "matrix"
    /\ handle' = "closed"
    /\ UNCHANGED <<output_format, library, pc, result, api, held>>

IngestNext == BuildHdf5

SpecIngest == InitIngest /\ [][IngestNext]_vars

LifecycleNext == Construct \/ SearchCall \/ ThresholdCall \/ Close

SpecLifecycle == InitNew /\ [][LifecycleNext]_vars

SpecIndex == InitIndex /\ [][IndexNext]_vars

SearchNext == SearchCall

SpecSearch == Init /\ [][SearchNext]_vars

ThresholdNext == ThresholdCall

SpecThreshold == Init /\ [][ThresholdNext]_vars

Next == SearchCall \/ ThresholdCall

Spec == Init /\ [][Next]_vars

----------------------------------------------------------------------------
(* Properties *)

\* the identifiers of id_list stored on the axis arr
OnAxis(arr, id_list) ==
    {id_list[i] : i \in {j \in 1..Len(id_list) :
                            \E p \in 1..Len(arr) : arr[p] = Encode(id_list[j])}}

\* C6: the axis lookup holds exactly the requested identifiers stored on the
\* axis, each once and with the position of its first occurrence, in
\* ascending order of position; identifiers not on the axis are left out
\* and nothing is raised.
C6_AxisLookup ==
    call.op = "_get_hdf5_indices" =>
        LET arr == AxisArray(call.axis)
            idx == result.indices
        IN /\ result.status = "ok"
           /\ {idx[i][1] : i \in 1..Len(idx)} = OnAxis(arr, call.id_list)
           /\ \A i, j \in 1..Len(idx) : i < j => idx[i][2] < idx[j][2]
           /\ \A i \in 1..Len(idx) :
                 /\ idx[i][2] \in 0..(Len(arr) - 1)
                 /\ arr[idx[i][2] + 1] = Encode(idx[i][1])
                 /\ \A p \in 1..idx[i][2] : arr[p] # Encode(idx[i][1])

\* C6 witness: F1 is stored twice behind F2 and asked for first
C6_Witness ==
    /\ call.op = "_get_hdf5_indices"
    /\ call.axis = "axis/features"
    /\ features = StoredAxis(<<F2, F1, F1>>)
    /\ call.id_list = <<F1, F2>>
    /\ result.indices = << <<F2, 0>>, <<F1, 1>> >>

----------------------------------------------------------------------------
(* Reading a results object, whichever its format *)

Range(s) == {s[i] : i \in 1..Len(s)}

\* the 0-based position at which id is first stored on the axis arr
FirstPos(arr, id) ==
    CHOOSE p \in 0..(Len(arr) - 1) :
        /\ arr[p + 1] = Encode(id)
        /\ \A q \in 1..p : arr[q] # Encode(id)

IsOnAxis(arr, id) == \E p \in 1..Len(arr) : arr[p] = Encode(id)

\* the sample identifiers of a results object, in its order
SampleList(res) ==
    IF res.format = JSON THEN DictKeys(res.expression) ELSE DecodeAll(res.samples)

\* the feature identifiers of a results object (the canonical-ID column of a
\* results file), in its order
FeatureList(res) ==
    IF res.format = JSON THEN res.features
    ELSE [i \in 1..Len(res.features) |-> Decode(res.features[i][1])]

\* the value vector of the i-th sample of a results object
ValueVector(res, i) ==
    IF res.format = JSON THEN res.expression[i][2] ELSE res.expression[i]

\* the samples a call included: none when it raised
IncludedSamples(outcome) ==
    IF outcome.status = "ok" THEN Range(SampleList(outcome.results)) ELSE {}

\* the rearrangements of the sequence s
Rearrangements(s) ==
    {t \in [1..Len(s) -> Range(s)] :
        \A x \in Range(s) : Cardinality({i \in 1..Len(s) : t[i] = x})
                                = Cardinality({i \in 1..Len(s) : s[i] = x})}

\* the row of the sample stored at 1-based row r passes every pair
PassesAll(r, ft_list, ft_type) ==
    \A i \in 1..Len(ft_list) :
        LET v == expression[r][FirstPos(features, ft_list[i][1]) + 1]
        IN IF ft_type = "min" THEN v > ft_list[i][2] ELSE v <= ft_list[i][2]

IsIdThreshold ==
    /\ call.op = "search_threshold"
    /\ call.feature_label = "id"
    /\ call.ft_list # <<>>

\* C1: a threshold query by id whose features are all on the axis returns a
\* results object, and a sample is in it exactly if its value is > the
\* threshold for every pair ("min"), or <= the threshold for every pair
\* ("max").
C1_ThresholdInclusion ==
    (/\ IsIdThreshold
     /\ \A i \in 1..Len(call.ft_list) : IsOnAxis(features, call.ft_list[i][1]))
    => /\ result.status = "ok"
       /\ \A r \in 1..Len(samples) :
             Decode(samples[r]) \in IncludedSamples(result)
                 <=> PassesAll(r, call.ft_list, call.ft_type)

\* C1 witness: the scenario samples [S1,S2], features [F1,F2], values
\* [[0.1,0.3],[0.5,0.2]] (in rank order [[0,2],[2,1]], the threshold 0.2
\* being 1), min query [(F1, 0.2)]: S2 is included, S1 is not
C1_Witness ==
    /\ IsIdThreshold
    /\ samples = StoredAxis(<<S1, S2>>)
    /\ features = StoredAxis(<<F1, F2>>)
    /\ expression = << <<0, 2>>, <<2, 1>> >>
    /\ call.ft_type = "min"
    /\ call.ft_list = << <<F1, 1>> >>
    /\ IncludedSamples(result) = {S2}

\* the pair lists that keep the features of ft_list and move no threshold
\* down (up = TRUE) or up (up = FALSE)
Shifted(ft_list, up) ==
    {[i \in 1..Len(ft_list) |-> <<ft_list[i][1], ths[i]>>] :
        ths \in {x \in [1..Len(ft_list) -> Thresholds] :
                    \A i \in 1..Len(ft_list) :
                        IF up THEN x[i] >= ft_list[i][2] ELSE x[i] <= ft_list[i][2]}}

\* C7: raising thresholds of a "min" query, or lowering thresholds of a "max"
\* query, on the same file and features never adds a sample to the result.
C7_ThresholdMonotone ==
    (call.op = "search_threshold" /\ call.ft_list # <<>>)
    => \A t \in Shifted(call.ft_list, call.ft_type = "min") :
          IncludedSamples(SearchThreshold(t, call.ft_type, call.feature_label,
                                          output_format, library))
              \subseteq IncludedSamples(result)

\* C7 witness: a "min" query on F1 at threshold 0 includes both samples, and
\* at threshold 1 only one of them
C7_Witness ==
    /\ call.op = "search_threshold"
    /\ call.ft_type = "min"
    /\ call.feature_label = "id"
    /\ call.ft_list = << <<F1, 0>> >>
    /\ IncludedSamples(result) = {S1, S2}
    /\ IncludedSamples(SearchThreshold(<< <<F1, 1>> >>, "min", "id",
                                       output_format, library)) = {S2}

\* C8: a threshold query that returned a results object returns one with the
\* same samples for every order of its pair list.
C8_PairOrderIrrelevant ==
    (call.op = "search_threshold" /\ result.status = "ok")
    => \A t \in Rearrangements(call.ft_list) :
          LET other == SearchThreshold(t, call.ft_type, call.feature_label,
                                       output_format, library)
          IN /\ other.status = "ok"
             /\ IncludedSamples(other) = IncludedSamples(result)

\* the canonical ID the mapping table gives a gene symbol: that of the first
\* row holding the symbol
IsMapped(name) == \E i \in 1..Len(FeatureMap) : FeatureMap[i].gene_symbol = name

CanonicalId(name) ==
    FeatureMap[CHOOSE i \in 1..Len(FeatureMap) :
                  /\ FeatureMap[i].gene_symbol = name
                  /\ \A j \in 1..(i - 1) : FeatureMap[j].gene_symbol # name].ensembl_id

\* the values of a results object, sample by sample
ValueBlock(res) == [i \in 1..Len(SampleList(res)) |-> ValueVector(res, i)]

\* C10: a threshold query by names that the mapping table resolves ends as
\* the query by the canonical IDs does, and selects the same samples and the
\* same values, for "min" and "max".
C10_NameAsId ==
    (/\ call.op = "search_threshold"
     /\ call.feature_label = "name"
     /\ call.ft_list # <<>>
     /\ \A i \in 1..Len(call.ft_list) : IsMapped(call.ft_list[i][1]))
    => LET by_id == [i \in 1..Len(call.ft_list) |->
                        <<CanonicalId(call.ft_list[i][1]), call.ft_list[i][2]>>]
           other == SearchThreshold(by_id, call.ft_type, "id", output_format, library)
       IN /\ other.status = result.status
          /\ result.status = "ok"
                => /\ SampleList(other.results) = SampleList(result.results)
                   /\ ValueBlock(other.results) = ValueBlock(result.results)

\* C10 witness: N1 stands on two rows of the table, for F1 first; the query
\* selects S2 alone by its F1 value
C10_Witness ==
    /\ call.op = "search_threshold"
    /\ call.feature_label = "name"
    /\ call.ft_type = "min"
    /\ call.ft_list = << <<N1, 1>> >>
    /\ features = StoredAxis(<<F2, F1>>)
    /\ result.status = "ok"
    /\ SampleList(result.results) = <<S2>>
    /\ ValueBlock(result.results) = << <<2>> >>
    /\ expression[2] = <<0, 2>>

----------------------------------------------------------------------------
(* search(): the three query shapes *)

\* the feature list a search() call gave, whichever argument held it
GivenList ==
    IF call.feature_list_id # <<>> THEN call.feature_list_id
    ELSE IF call.feature_list_name # <<>> THEN call.feature_list_name
    ELSE call.feature_list_accession

\* the value v stands in the column df_key of the mapping table
InTable(df_key, v) == \E i \in 1..Len(FeatureMap) : FeatureMap[i][df_key] = v

\* the canonical ID of the first row of the table holding v in column df_key
TableId(df_key, v) ==
    FeatureMap[CHOOSE i \in 1..Len(FeatureMap) :
                  /\ FeatureMap[i][df_key] = v
                  /\ \A j \in 1..(i - 1) : FeatureMap[j][df_key] # v].ensembl_id

\* the canonical IDs the given list stands for: itself when given by id,
\* else the IDs of its names or accessions that the table holds
ListedIds ==
    IF call.feature_list_id # <<>> THEN call.feature_list_id
    ELSE LET df_key == IF call.feature_list_name # <<>> THEN "gene_symbol"
                       ELSE "accession_numbers"
             Held(v) == InTable(df_key, v)
             in_table == SelectSeq(GivenList, Held)
         IN [i \in 1..Len(in_table) |-> TableId(df_key, in_table[i])]

\* the strictly ascending sequences of 0-based positions of an axis of n slots
Selections(n) ==
    {s \in SeqsOf(0..(n - 1), 0, n) : \A i, j \in DOMAIN s : i < j => s[i] < s[j]}

\* the strictly ascending sequence of the numbers of the finite set S
Ascending(S) ==
    CHOOSE s \in [1..Cardinality(S) -> S] : \A i, j \in DOMAIN s : i < j => s[i] < s[j]

\* the 0-based columns of the identifiers of ids stored on the feature axis,
\* ascending
ColumnsOf(ids) ==
    Ascending({FirstPos(features, id) : id \in {x \in Range(ids) : IsOnAxis(features, x)}})

\* the values of the sample stored at 1-based row r in the columns cols
ValuesAt(r, cols) == [j \in 1..Len(cols) |-> expression[r][cols[j] + 1]]

\* the identifiers stored at the columns cols of the feature axis
IdsAt(cols) == [j \in 1..Len(cols) |-> Decode(features[cols[j] + 1])]

\* C2: a feature-set query by id with ".json" output, for identifiers of
\* which the feature axis stores one or more, returns a document whose expression holds every sample of the samples axis with its
\* own values at the columns of the listed identifiers, one value per
\* identifier found, and whose features are those identifiers.
C2_FeatureSetDocument ==
    (/\ call.op = "search"
     /\ call.sample_id = <<>>
     /\ call.feature_list_id # <<>>
     /\ \E i \in 1..Len(call.feature_list_id) : IsOnAxis(features, call.feature_list_id[i])
     /\ output_format = JSON
     /\ result.status = "ok")
    => LET cols == ColumnsOf(call.feature_list_id)
           res == result.results
       IN /\ SampleList(res) = DecodeAll(samples)
          /\ \A r \in 1..Len(SampleList(res)) : ValueVector(res, r) = ValuesAt(r, cols)
          /\ FeatureList(res) = IdsAt(cols)

IsListQuery ==
    /\ call.op = "search"
    /\ GivenList # <<>>

\* the same search() call with its feature list replaced by t
SearchWith(t) ==
    Search(call.sample_id,
           IF call.feature_list_id # <<>> THEN t ELSE <<>>,
           IF call.feature_list_accession # <<>> THEN t ELSE <<>>,
           IF call.feature_list_name # <<>> THEN t ELSE <<>>,
           output_format, library)

\* C3: the feature list a feature-set or sample + feature-set query returns
\* holds the identifiers stored at ascending positions of the feature axis;
\* when the list stands for canonical IDs and samples are returned, these are
\* the positions of the IDs found on the axis; and the query returns the
\* same feature list for every rearrangement of the list it was given.
C3_FeatureOrder ==
    (IsListQuery /\ result.status = "ok")
    => LET fl == FeatureList(result.results)
       IN /\ \E cols \in Selections(Len(features)) : fl = IdsAt(cols)
          /\ (ListedIds # <<>> /\ SampleList(result.results) # <<>>)
                => fl = IdsAt(ColumnsOf(ListedIds))
          /\ \A t \in Rearrangements(GivenList) :
                LET other == SearchWith(t)
                IN /\ other.status = "ok"
                   /\ FeatureList(other.results) = fl

\* C3 witness: F1 and F2 asked for in that order of a file storing F2 first
C3_Witness ==
    /\ IsListQuery
    /\ call.feature_list_id = <<F1, F2>>
    /\ features = StoredAxis(<<F2, F1>>)
    /\ result.status = "ok"
    /\ FeatureList(result.results) = <<F2, F1>>

IsSampleQuery ==
    /\ call.op = "search"
    /\ call.sample_id # <<>>
    /\ GivenList = <<>>

\* C4: a by-sample query raises nothing; for a sample stored on the samples
\* axis it returns that sample alone, with the full feature list and the
\* sample's row, one value per feature of the axis; for any other identifier
\* it returns the empty results object.
C4_BySample ==
    IsSampleQuery
    => /\ result.status = "ok"
       /\ IF IsOnAxis(samples, call.sample_id)
          THEN LET res == result.results
                   r == FirstPos(samples, call.sample_id) + 1
               IN /\ SampleList(res) = <<call.sample_id>>
                  /\ FeatureList(res) = DecodeAll(features)
                  /\ Len(ValueVector(res, 1)) = Len(features)
                  /\ ValueVector(res, 1) = expression[r]
          ELSE result.results = BuildResultsTemplate(output_format)

\* C4 witness: the second sample of a two-feature file
C4_Witness ==
    /\ IsSampleQuery
    /\ call.sample_id = S2
    /\ samples = StoredAxis(<<S1, S2>>)
    /\ features = StoredAxis(<<F1, F2>>)
    /\ expression = << <<0, 0>>, <<1, 2>> >>
    /\ SampleList(result.results) = <<S2>>
    /\ ValueVector(result.results, 1) = <<1, 2>>

\* C5: a query with a sample and a feature list that returns, returns the
\* sample + feature-set shape: for a stored sample, that sample alone with
\* the canonical IDs of the list found on the axis and one value for each,
\* taken from the sample's row; for any other sample, the empty results
\* object.
C5_SampleAndFeatures ==
    (/\ IsListQuery
     /\ call.sample_id # <<>>
     /\ result.status = "ok")
    => IF IsOnAxis(samples, call.sample_id)
       THEN LET res == result.results
                r == FirstPos(samples, call.sample_id) + 1
                cols == ColumnsOf(ListedIds)
            IN /\ SampleList(res) = <<call.sample_id>>
               /\ FeatureList(res) = IdsAt(cols)
               /\ ValueVector(res, 1) = ValuesAt(r, cols)
       ELSE result.results = BuildResultsTemplate(output_format)

----------------------------------------------------------------------------
(* Results files *)

IsWritten ==
    /\ result.status = "ok"
    /\ result.results.format = H5
    /\ result.results.datasets # {}

\* C9: a results file that was written reads back as a selection of rows and
\* of columns of the source file: its samples axis and the canonical-ID
\* column of its feature axis decode to the identifiers stored at those rows
\* and columns, in order, and its value at (i, j) is the source value at the
\* i-th row and j-th column of the selection; a search() for a sample selects
\* that sample alone, and a search() without one every sample.
C9_RoundTrip ==
    IsWritten
    => LET res == result.results
       IN /\ res.datasets = {"axis/features", "axis/samples", "expression"}
          /\ \E rows \in Selections(Len(samples)), cols \in Selections(Len(features)) :
                /\ SampleList(res) = [i \in 1..Len(rows) |-> Decode(samples[rows[i] + 1])]
                /\ FeatureList(res) = IdsAt(cols)
                /\ res.expression = [i \in 1..Len(rows) |-> ValuesAt(rows[i] + 1, cols)]
          /\ call.op = "search"
                => SampleList(res) = IF call.sample_id # <<>> THEN <<call.sample_id>>
                                     ELSE DecodeAll(samples)

\* C9 witness: the file of the feature-set query [F2] on samples [S1,S2],
\* features [F1,F2], values [[0,2],[2,1]]
C9_Witness ==
    /\ IsWritten
    /\ call.op = "search"
    /\ call.sample_id = <<>>
    /\ call.feature_list_id = <<F2>>
    /\ samples = StoredAxis(<<S1, S2>>)
    /\ features = StoredAxis(<<F1, F2>>)
    /\ expression = << <<0, 2>>, <<2, 1>> >>
    /\ SampleList(result.results) = <<S1, S2>>
    /\ FeatureList(result.results) = <<F2>>
    /\ result.results.expression = << <<2>>, <<1>> >>

----------------------------------------------------------------------------
(* Constructing an engine *)

\* C11: when __init__ is given an output type outside the supported set it
\* raises the unsupported-format error (ValueError) whether or not the input
\* file exists, and has opened no file.
C11_FormatBeforeIO ==
    (call.op = "__init__" /\ call.output_type \notin SupportedOutputFormats)
    => /\ result.status = "ValueError"
       /\ handle = "none"

\* C17: an engine that is open (constructed, not closed) is on a file that
\* holds the expression dataset.
C17_OpenedHasExpression ==
    pc \in {"opened", "queried"} => input_file = "matrix"

----------------------------------------------------------------------------
(* search(): arguments the engine refuses or finds nothing for *)

\* the list arguments of the call that are not empty
ListsGiven ==
    {k \in {"feature_list_id", "feature_list_accession", "feature_list_name"} :
        call[k] # <<>>}

\* C14: a search() given two or three of the lists (ids, names, accessions)
\* raises ValueError and returns no results object.
C14_OneListOnly ==
    (call.op = "search" /\ Cardinality(ListsGiven) >= 2)
    => /\ result.status = "ValueError"
       /\ result.results = [format |-> "none"]

\* C14 witness: a name list together with an accession list
C14_Witness ==
    /\ call.op = "search"
    /\ ListsGiven = {"feature_list_accession", "feature_list_name"}
    /\ result.status = "ValueError"

\* C15: a feature-set query by names or by accessions of which the mapping
\* table holds none raises nothing and returns the empty results object.
C15_NothingResolved ==
    (/\ call.op = "search"
     /\ call.sample_id = <<>>
     /\ ListsGiven \in {{"feature_list_name"}, {"feature_list_accession"}}
     /\ ListedIds = <<>>)
    => /\ result.status = "ok"
       /\ result.results = BuildResultsTemplate(output_format)

\* C16: a threshold query by id that lists an identifier the feature axis
\* does not store raises nothing and returns a results object.
C16_AbsentFeatureDropped ==
    (/\ IsIdThreshold
     /\ \E i \in 1..Len(call.ft_list) : ~IsOnAxis(features, call.ft_list[i][1]))
    => result.status = "ok"

\* a query that matches nothing: a search() for a sample the file does not
\* store, or a threshold query by ids of the axis that no sample passes
MatchesNothing ==
    \/ /\ call.op = "search"
       /\ Cardinality(ListsGiven) <= 1
       /\ call.sample_id # <<>>
       /\ ~IsOnAxis(samples, call.sample_id)
    \/ /\ IsIdThreshold
       /\ \A i \in 1..Len(call.ft_list) : IsOnAxis(features, call.ft_list[i][1])
       /\ \A r \in 1..Len(samples) : ~PassesAll(r, call.ft_list, call.ft_type)

\* C18: in ".h5" output a query that matches nothing returns, without an
\* error, a results file that holds the expression, samples and features
\* datasets, with no sample and no expression row.
C18_EmptyFileLayout ==
    (output_format = H5 /\ MatchesNothing)
    => /\ result.status = "ok"
       /\ result.results.format = H5
       /\ result.results.datasets = {"axis/features", "axis/samples", "expression"}
       /\ result.results.samples = <<>>
       /\ result.results.expression = <<>>

----------------------------------------------------------------------------
(* Threshold inputs *)

\* C13: a threshold array of odd length, and a threshold object without the
\* threshold field or without the feature-label field, is refused with
\* ThresholdValueError and gives no pair list.
C13_MalformedRefused ==
    (/\ call.op = "convert_threshold_array"
     /\ \/ /\ call.threshold_input.kind = "array"
           /\ Len(call.threshold_input.items) % 2 = 1
        \/ /\ call.threshold_input.kind = "objects"
           /\ \E i \in 1..Len(call.threshold_input.objects) :
                 call.threshold_input.objects[i] # {"featureName", "threshold"})
    => result.status = "ThresholdValueError"

\* the request has been answered, or has ended with an unhandled exception
IsFinished == api.status \in {"200", "400", "error"}

\* C20: when a search request finishes, every matrix file handle that the
\* per-file slicing step opened for it has been closed, on every path
\* (successful query, file error, lookup error, malformed threshold input,
\* invalid arguments, unsupported format)
C20_HandlesClosed ==
    IsFinished => \A n \in 1..Len(api.handles) : api.handles[n] # "open"

\* the threshold array the request's query is made of: minExpression when
\* it is given, else maxExpression
OperativeThreshold(request) ==
    IF Truthy(request.minExpression) THEN request.minExpression
    ELSE request.maxExpression

\* the request is a threshold request (no sample, no feature list) and some
\* threshold position of its array holds a word
HasWordThreshold(request) ==
    /\ request.sampleID = <<>>
    /\ request.featureIDList = <<>>
    /\ request.featureNameList = <<>>
    /\ request.featureAccessionList = <<>>
    /\ Truthy(OperativeThreshold(request))
    /\ \E i \in 1..(Len(OperativeThreshold(request).items) \div 2) :
          ~IsFloatText(OperativeThreshold(request).items[2 * i])

\* the filters of the request have selected matrix files, and only such
ScansMatrixFiles ==
    /\ api.expressions # <<>>
    /\ \A n \in 1..Len(api.expressions) : api.expressions[n] = "matrix"

\* C12: a search request over stored matrix files whose threshold array
\* holds a non-numeric value in a threshold position is answered with status
\* 400, and no output file record is created for it
C12_WordThresholdRefused ==
    (IsFinished /\ ScansMatrixFiles /\ HasWordThreshold(api.request))
    => (api.status = "400" /\ api.records = <<>>)

\* the results object the last call would hand back on an instance that has
\* answered no call before
FreshOutcome ==
    IF call.op = "search"
    THEN Search(call.sample_id, call.feature_list_id, call.feature_list_accession,
                call.feature_list_name, output_format, library)
    ELSE SearchThreshold(call.ft_list, call.ft_type, call.feature_label,
                         output_format, library)

\* C19: on one open instance, in either output mode, a query call hands
\* back what it would hand back as the first call on the instance (it does
\* not fail because of an earlier call), and no results object of an
\* earlier call is altered, truncated or invalidated by it
C19_IndependentResults ==
    /\ \A i \in 1..Len(held) : held[i] # "overwritten"
    /\ (pc = "queried" /\ call.op \in {"search", "search_threshold"})
       => result = FreshOutcome

\* what the request's query finds in the matrix file of the model, in the
\* engine's own ".json" mode
QueryOnMatrix == SliceQuery(api.request, JSON, library)

\* the request is a slice request by sample, feature IDs or names, or
\* thresholds (no accession list) whose query matches data of the matrix file
MatchesData ==
    /\ api.request.featureAccessionList = <<>>
    /\ AnySliceParameter(api.request)
    /\ QueryOnMatrix.status = "ok"
    /\ SampleList(QueryOnMatrix.results) # <<>>

\* C25: a slice request whose query matches data in the stored matrix
\* files, with output format F in {json, h5}, returns status 200 and exactly
\* one file record per matching file, of fileType F and of the studyID of
\* that file
C25_OneRecordPerFile ==
    (IsFinished /\ ScansMatrixFiles /\ MatchesData
        /\ api.request.output \in {"json", "h5"})
    => /\ api.status = "200"
       /\ api.responses = [n \in 1..Len(api.expressions) |->
                              FileRecord(n, api.request.output)]

\* the request's query is answered by the engine with an empty result: the
\* sample is on no axis, or no sample passes the thresholds
MatchesNoData ==
    /\ api.request.featureAccessionList = <<>>
    /\ AnySliceParameter(api.request)
    /\ QueryOnMatrix.status = "ok"
    /\ SampleList(QueryOnMatrix.results) = <<>>

\* C26: a slice request that matches nothing in any stored matrix file
\* returns status 200 with an empty list, and no file record is produced
C26_EmptyResultNoRecord ==
    (IsFinished /\ ScansMatrixFiles /\ MatchesNoData
        /\ api.request.output \in {"json", "h5"})
    => /\ api.status = "200"
       /\ api.responses = <<>>
       /\ api.records = <<>>

\* the request carries a feature accession list and nothing else to slice by
IsAccessionOnly(request) ==
    /\ request.featureAccessionList # <<>>
    /\ request.sampleID = <<>>
    /\ request.featureIDList = <<>>
    /\ request.featureNameList = <<>>
    /\ ~Truthy(request.minExpression)
    /\ ~Truthy(request.maxExpression)

\* C27: a request that supplies only a feature accession list is served as
\* a feature-set query over the stored matrix files, without an error: it
\* returns status 200 and one file record per file
C27_AccessionListQuery ==
    (IsFinished /\ ScansMatrixFiles /\ IsAccessionOnly(api.request))
    => /\ api.status = "200"
       /\ Len(api.responses) = Len(api.expressions)

\* the numbers of the files of the request that can be opened, in order
RECURSIVE Openable(_)
Openable(n) ==
    IF n = 0 THEN <<>>
    ELSE IF api.expressions[n] = "missing" THEN Openable(n - 1)
    ELSE Append(Openable(n - 1), n)

\* C22: in a search over several expression files of which some cannot be
\* opened, those are skipped, every other file is still queried and
\* contributes its entry, and the request is not aborted
C22_MissingFileSkipped ==
    (/\ IsFinished
     /\ MatchesData
     /\ api.request.output \in {"json", "h5"}
     /\ \E n \in 1..Len(api.expressions) : api.expressions[n] = "missing"
     /\ \E n \in 1..Len(api.expressions) : api.expressions[n] = "matrix"
     /\ \A n \in 1..Len(api.expressions) : api.expressions[n] # "bare")
    => /\ api.status = "200"
       /\ api.responses =
             [i \in 1..Len(Openable(Len(api.expressions))) |->
                 FileRecord(Openable(Len(api.expressions))[i], api.request.output)]

\* C29: in every results object of a threshold query in ".json" output,
\* the feature list is as long as each sample's value vector, and the i-th
\* value of a sample is the source matrix value of that sample for the i-th
\* listed feature
C29_ThresholdAligned ==
    (/\ pc = "queried"
     /\ call.op = "search_threshold"
     /\ output_format = JSON
     /\ result.status = "ok")
    => \A i \in 1..Len(SampleList(result.results)) :
          LET v == ValueVector(result.results, i)
              r == FirstPos(samples, SampleList(result.results)[i]) + 1
              fl == FeatureList(result.results)
          IN /\ Len(v) = Len(fl)
             /\ \A j \in 1..Len(fl) :
                   \E p \in 1..Len(features) :
                      /\ features[p] = Encode(fl[j])
                      /\ v[j] = expression[r][p]

\* what the last call hands back on an engine of output format fmt
OutcomeIn(fmt) ==
    IF call.op = "search"
    THEN Search(call.sample_id, call.feature_list_id, call.feature_list_accession,
                call.feature_list_name, fmt, library)
    ELSE SearchThreshold(call.ft_list, call.ft_type, call.feature_label, fmt, library)

\* C30: for the same matrix file and the same query arguments the ".json"
\* and the ".h5" mode describe the same result: both raise or both return,
\* with the same samples in the same order, the same feature identifiers in
\* the same order, and the same value for every result sample and feature
C30_SameResultInBothModes ==
    (pc = "queried" /\ call.op \in {"search", "search_threshold"})
    => LET a == OutcomeIn(JSON)
           b == OutcomeIn(H5)
       IN /\ a.status = b.status
          /\ a.status = "ok"
             => /\ SampleList(a.results) = SampleList(b.results)
                /\ FeatureList(a.results) = FeatureList(b.results)
                /\ \A i \in 1..Len(SampleList(a.results)) :
                      ValueVector(a.results, i) = ValueVector(b.results, i)

\* the raw count of the file for the sample and the feature of these names
\* (the first column of the feature, should the axis hold it twice)
SourceCount(sample, feature) ==
    RawCounts[FirstPos(samples, sample) + 1][FirstPos(features, feature) + 1]

\* the raw counts of a results object are parallel to its expression
\* values: the same samples, per sample as many counts as features, each
\* the file's count of that sample and feature; a results file holds the
\* counts dataset exactly if it holds the expression dataset
CountsParallel(res) ==
    IF res.format = JSON
    THEN /\ DictKeys(res.raw_counts) = DictKeys(res.expression)
         /\ \A i \in 1..Len(res.raw_counts) :
               /\ Len(res.raw_counts[i][2]) = Len(res.features)
               /\ \A j \in 1..Len(res.features) :
                     /\ IsOnAxis(features, res.features[j])
                     /\ res.raw_counts[i][2][j]
                            = SourceCount(res.raw_counts[i][1], res.features[j])
    ELSE IF "expression" \notin res.datasets
    THEN "metadata/counts" \notin res.datasets
    ELSE /\ "metadata/counts" \in res.datasets
         /\ Len(res.counts) = Len(res.samples)
         /\ \A i \in 1..Len(res.counts) :
               /\ Len(res.counts[i]) = Len(res.features)
               /\ \A j \in 1..Len(res.features) :
                     res.counts[i][j] = SourceCount(Decode(res.samples[i]),
                                                    Decode(res.features[j][1]))

\* C23: with include_metadata=True every query that returns a result
\* without the metadata returns one with it, and the raw counts of the
\* result are parallel to its expression values (by-sample, feature-set,
\* sample + feature-set and threshold queries, in both output modes)
C23_CountsParallel ==
    (pc = "queried" /\ OutcomeIn(output_format).status = "ok")
    => /\ result.status = "ok"
       /\ CountsParallel(result.results)

\* C21: every temp-file record references an output file whose write has
\* returned; a write that failed leaves no record
C21_RecordAfterWrite ==
    /\ \A i \in 1..Len(api.records) :
          \E j \in 1..Len(api.written) : api.written[j] = api.records[i].studyID
    /\ pc = "failed" => api.records = <<>>

\* C21 witness: a response has been generated, the output file is written
\* and its record stored
C21_Witness ==
    /\ pc = "recorded"
    /\ api.written = <<1>>
    /\ api.records = <<FileRecord(1, "json")>>

\* C28: after any sequence of ingestion runs the samples axis of the matrix
\* file holds no identifier twice
C28_NoDuplicateSamples ==
    \A i, j \in 1..Len(samples) : i # j => samples[i] # samples[j]

\* C24: after build_hdf5 the matrix file has one expression row per sample,
\* one expression column per feature, and a counts matrix of the same shape
C24_DataModelInvariant ==
    call.op = "build_hdf5"
    => /\ Len(expression) = Len(samples)
       /\ Len(counts) = Len(expression)
       /\ \A r \in 1..Len(expression) :
             /\ Len(expression[r]) = Len(features)
             /\ Len(counts[r]) = Len(expression[r])

====
